---- MODULE Spec2Model ----
(***************************************************************************)
(* Model of properties.go: the SchemaProperties container (Origin map plus *)
(* an insertion-ordered map), its projection to OrderSchemaItems, the      *)
(* x-order comparator used by sort.Sort in the fallback path, and the      *)
(* JSON rendering of the ordered items.                                    *)
(*                                                                         *)
(* Go strings are sequences of one-character strings, compared bytewise.   *)
(***************************************************************************)
EXTENDS Integers, Sequences, FiniteSets, TLC

VARIABLES Origin, omap, op, ret, panicked, inserted

vars == <<Origin, omap, op, ret, panicked, inserted>>

\* Largest number of entries a container holds in the model.
MaxEntries == 3

(***************************************************************************)
(* Strings                                                                 *)
(***************************************************************************)

\* The characters that occur in compared strings, in ascending byte order.
CharOrder ==
  <<"U+0001", "\n", " ", "\"", "0", "1", "2", "5", "<", ">", "V", "\\", "a", "b", "c", "e", "i", "l",
    "n", "o", "t", "u">>

OrdTable ==
  [c \in {CharOrder[i] : i \in 1..Len(CharOrder)} |->
     CHOOSE i \in 1..Len(CharOrder) : CharOrder[i] = c]

Ord(c) == OrdTable[c]

\* Go's < on strings: bytewise lexicographic, a proper prefix is smaller.
StrLess(s, t) ==
  LET d == {i \in 1..Len(s) : i > Len(t) \/ s[i] # t[i]}
  IN  IF d = {} THEN Len(s) < Len(t)
      ELSE LET i == CHOOSE x \in d : \A y \in d : x <= y
           IN  i <= Len(t) /\ Ord(s[i]) < Ord(t[i])

(***************************************************************************)
(* Schemas: only the x-order extension matters here.                       *)
(***************************************************************************)

NoExt == [kind |-> "absent", n |-> 0, s |-> <<>>]
IntExt(n) == [kind |-> "int", n |-> n, s |-> <<>>]
StrExt(s) == [kind |-> "string", n |-> 0, s |-> s]
BoolExt == [kind |-> "bool", n |-> 0, s |-> <<>>]

\* What reflect.Value.String() returns for a value that is not a string.
Placeholders ==
  [kind \in {"int", "bool"} |->
     <<"<">> \o (IF kind = "int" THEN <<"i", "n", "t">> ELSE <<"b", "o", "o", "l">>)
       \o <<" ", "V", "a", "l", "u", "e", ">">>]

ValuePlaceholder(kind) == Placeholders[kind]

XOrderInts == {2, 10}
XOrderStrings == {<<"5">>, ValuePlaceholder("int")}

Schemas ==
  {NoExt, BoolExt} \cup {IntExt(n) : n \in XOrderInts}
    \cup {StrExt(s) : s \in XOrderStrings}

\* "U+0001" names the control byte 0x01.
Names == {<<"a">>, <<"a", "\"">>, <<"\\", "n">>, <<"U+0001">>}

\* The schemas handed to Set in the model.
InsertSchemas == {NoExt} \cup {IntExt(n) : n \in XOrderInts}

(***************************************************************************)
(* The comparator                                                          *)
(***************************************************************************)

\* Extensions.GetString("x-order"): the ordering value and whether it is present.
GetString(schema) == [v |-> schema, ok |-> schema.kind # "absent"]

\* reflect.ValueOf(v).Int() panics unless v is of an integer kind.
ReflectIntPanics(v) == v.kind # "int"

\* reflect.ValueOf(v).String() never panics: a string gives its content, any
\* other kind the placeholder "<T Value>".
ReflectStringPanics(v) == FALSE
ReflectString(v) == IF v.kind = "string" THEN v.s ELSE ValuePlaceholder(v.kind)

Less_reversed(a, b) ==
  LET ii == GetString(a.Schema)
      ij == GetString(b.Schema)
  IN  IF ii.ok
        THEN ij.ok => StrLess(b.Name, a.Name)
        ELSE ~ij.ok /\ StrLess(b.Name, a.Name)

\* OrderSchemaItems.Less on the items a and b.
Less(a, b) ==
  LET ii == GetString(a.Schema)
      ij == GetString(b.Schema)
  IN  IF ii.ok
        THEN IF ij.ok
               THEN IF ~ReflectIntPanics(ii.v) /\ ~ReflectIntPanics(ij.v)
                      THEN ii.v.n < ij.v.n
                      ELSE IF ~ReflectStringPanics(ii.v) /\ ~ReflectStringPanics(ij.v)
                             THEN StrLess(ReflectString(ii.v), ReflectString(ij.v))
                             ELSE StrLess(a.Name, b.Name)
               ELSE TRUE
        ELSE IF ij.ok THEN FALSE ELSE StrLess(a.Name, b.Name)

\* OrderSchemaItems.Swap
Swap(items, i, j) ==
  [items EXCEPT ![i] = items[j], ![j] = items[i]]

\* sort.Sort on fewer than 12 elements is an insertion sort driven by Less and Swap.
RECURSIVE InsertDown(_, _)
InsertDown(items, j) ==
  IF j > 1 /\ Less(items[j], items[j - 1])
    THEN InsertDown(Swap(items, j, j - 1), j - 1)
    ELSE items

RECURSIVE SortFrom(_, _)
SortFrom(items, i) ==
  IF i > Len(items) THEN items ELSE SortFrom(InsertDown(items, i), i + 1)

Sort(items) == SortFrom(items, 2)

(***************************************************************************)
(* The container                                                           *)
(***************************************************************************)

EmptyMap == [k \in {} |-> NoExt]

MapPut(m, k, v) == [x \in (DOMAIN m) \cup {k} |-> IF x = k THEN v ELSE m[x]]

NilOrigin == [nil |-> TRUE, m |-> EmptyMap]
MakeOrigin(m) == [nil |-> FALSE, m |-> m]

NilOMap == [nil |-> TRUE, keys |-> <<>>, values |-> EmptyMap]

\* orderedmap.New()
OrderedMapNew == [nil |-> FALSE, keys |-> <<>>, values |-> EmptyMap]

\* (*OrderedMap).Set: a new key is appended to keys, the value is stored.
OrderedMapSet(o, k, v) ==
  [nil |-> FALSE,
   keys |-> IF k \in DOMAIN o.values THEN o.keys ELSE Append(o.keys, k),
   values |-> MapPut(o.values, k, v)]

\* (*OrderedMap).Keys
OrderedMapKeys(o) == o.keys

\* Every sequence that lists the keys of D once each.
RECURSIVE KeyOrders(_)
KeyOrders(D) ==
  IF D = {} THEN {<<>>}
  ELSE UNION {{<<k>> \o p : p \in KeyOrders(D \ {k})} : k \in D}

NameOrders == [D \in SUBSET Names |-> KeyOrders(D)]

\* The orders in which range may visit the keys of a map.
MapOrders(m) == NameOrders[DOMAIN m]

\* The iteration orders a call may meet; with omap set, Origin is not ranged over.
IterationOrders(o, om) == IF om.nil THEN MapOrders(o.m) ELSE {<<>>}

\* The zero value of Schema: what reading a key that is not in Origin yields.
OriginAt(o, k) == IF k \in DOMAIN o.m THEN o.m[k] ELSE NoExt

ToOrderedSchemaItems_sorted(o, om, order) ==
  LET keys == IF om.nil THEN order ELSE OrderedMapKeys(om)
  IN  Sort([i \in 1..Len(keys) |-> [Name |-> keys[i], Schema |-> OriginAt(o, keys[i])]])

\* SchemaProperties.ToOrderedSchemaItems; order is the iteration order of
\* range properties.Origin, consulted only when omap is nil.
ToOrderedSchemaItems(o, om, order) ==
  IF ~om.nil
    THEN LET keys == OrderedMapKeys(om)
         IN  [i \in 1..Len(keys) |-> [Name |-> keys[i], Schema |-> OriginAt(o, keys[i])]]
    ELSE Sort([i \in 1..Len(order) |-> [Name |-> order[i], Schema |-> o.m[order[i]]]])

\* SchemaProperties.Len
LenOf(o) == IF o.nil THEN 0 ELSE Cardinality(DOMAIN o.m)

NoRet == [items |-> <<>>, bytes |-> <<>>, err |-> FALSE, n |-> 0, less |-> FALSE]
NoOp(name) ==
  [name |-> name, k |-> <<>>, v |-> NoExt, had |-> FALSE, i |-> 0, j |-> 0]

\* Line 85: s.Origin[k] = v
SetOrigin(o, k, v) == MakeOrigin(MapPut(o.m, k, v))

SetOMap_skip(om, k, v) == om

SetOMap_moveToEnd(om, k, v) ==
  [nil |-> FALSE,
   keys |-> Append(SelectSeq(om.keys, LAMBDA x : x # k), k),
   values |-> MapPut(om.values, k, v)]

\* Line 86: s.omap.Set(k, v)
SetOMap(om, k, v) == OrderedMapSet(om, k, v)


(***************************************************************************)
(* JSON rendering                                                          *)
(***************************************************************************)

\* The concatenation of a sequence of strings, by halves.
RECURSIVE Concat(_)
Concat(ss) ==
  IF Len(ss) = 0 THEN <<>>
  ELSE IF Len(ss) = 1 THEN ss[1]
  ELSE LET mid == Len(ss) \div 2
       IN  Concat(SubSeq(ss, 1, mid)) \o Concat(SubSeq(ss, mid + 1, Len(ss)))

Digit(d) == <<"0", "1", "2", "3", "4", "5", "6", "7", "8", "9">>[d + 1]

RECURSIVE Decimal(_)
Decimal(n) == IF n < 10 THEN <<Digit(n)>> ELSE Append(Decimal(n \div 10), Digit(n % 10))

HexUpper == <<"0", "1", "2", "3", "4", "5", "6", "7", "8", "9", "A", "B", "C", "D", "E", "F">>
HexLower == <<"0", "1", "2", "3", "4", "5", "6", "7", "8", "9", "a", "b", "c", "d", "e", "f">>

HexDigits == {HexUpper[i] : i \in 1..Len(HexUpper)} \cup {HexLower[i] : i \in 1..Len(HexLower)}

HexValue(c) == CHOOSE v \in 0..15 : HexUpper[v + 1] = c \/ HexLower[v + 1] = c

\* The printable ASCII characters, from the space (0x20) to the tilde (0x7e);
\* "U+0060" names the grave accent.
Printable ==
  <<
    " ", "!", "\"", "#", "$", "%", "&", "'", "(", ")", "*", "+", ",", "-", ".", "/",
    "0", "1", "2", "3", "4", "5", "6", "7", "8", "9", ":", ";", "<", "=", ">", "?",
    "@", "A", "B", "C", "D", "E", "F", "G", "H", "I", "J", "K", "L", "M", "N", "O",
    "P", "Q", "R", "S", "T", "U", "V", "W", "X", "Y", "Z", "[", "\\", "]", "^", "_",
    "U+0060", "a", "b", "c", "d", "e", "f", "g", "h", "i", "j", "k", "l", "m", "n", "o",
    "p", "q", "r", "s", "t", "u", "v", "w", "x", "y", "z", "{", "|", "}", "~"
  >>

\* The name of a character that has no one-character literal: U+ and its code
\* point in hexadecimal.
RuneName(code) ==
  "U+" \o (IF code < 65536 THEN ""
           ELSE IF code < 1048576 THEN HexUpper[(code \div 65536) + 1]
           ELSE "10")
       \o HexUpper[((code \div 4096) % 16) + 1] \o HexUpper[((code \div 256) % 16) + 1]
       \o HexUpper[((code \div 16) % 16) + 1] \o HexUpper[(code % 16) + 1]

\* The character with the given code point.
CharOf(code) ==
  CASE code = 9 -> "\t"
    [] code = 10 -> "\n"
    [] code = 12 -> "\f"
    [] code = 13 -> "\r"
    [] code >= 32 /\ code <= 126 -> Printable[code - 31]
    [] OTHER -> RuneName(code)

\* The bytes below 0x20.
ControlChars == {CharOf(code) : code \in 0..31}

ControlCode(c) == CHOOSE code \in 0..31 : CharOf(code) = c

Backspace == CharOf(8)
LineSeparator == CharOf(8232)
ParagraphSeparator == CharOf(8233)
LineSeparators == {LineSeparator, ParagraphSeparator}

\* The releases of encoding/json a build may link: up to Go 1.21, and Go 1.22
\* and later. They differ in how a string value renders backspace and form
\* feed. The repository pins no toolchain.
GoReleases == {"go1.21", "go1.22"}

\* The control characters encoding/json writes with a letter.
ShortEscaped ==
  [go \in GoReleases |->
     IF go = "go1.22" THEN {"\n", "\t", "\r", "\f", Backspace} ELSE {"\n", "\t", "\r"}]

ShortEscape(c) ==
  CASE c = "\n" -> "n"
    [] c = "\t" -> "t"
    [] c = "\r" -> "r"
    [] c = "\f" -> "f"
    [] c = Backspace -> "b"

HTMLEscaped == {"<", ">", "&"} \cup LineSeparators

\* The escape encoding/json writes for <, >, & and the line separators.
HTMLEscapeChar(c) ==
  CASE c = "<" -> <<"\\", "u", "0", "0", "3", "c">>
    [] c = ">" -> <<"\\", "u", "0", "0", "3", "e">>
    [] c = "&" -> <<"\\", "u", "0", "0", "2", "6">>
    [] c = LineSeparator -> <<"\\", "u", "2", "0", "2", "8">>
    [] c = ParagraphSeparator -> <<"\\", "u", "2", "0", "2", "9">>

\* encoding/json's rendering of one character of a string value, in release go.
EscapeChar(c, go) ==
  IF c = "\"" \/ c = "\\" THEN <<"\\", c>>
  ELSE IF c \in ShortEscaped[go] THEN <<"\\", ShortEscape(c)>>
  ELSE IF c \in ControlChars
    THEN <<"\\", "u", "0", "0", HexLower[(ControlCode(c) \div 16) + 1],
           HexLower[(ControlCode(c) % 16) + 1]>>
  ELSE IF c \in HTMLEscaped THEN HTMLEscapeChar(c)
  ELSE <<c>>

EncodeString(s, go) ==
  <<"\"">> \o Concat([i \in 1..Len(s) |-> EscapeChar(s[i], go)]) \o <<"\"">>

XOrderKey == <<"\"", "x", "-", "o", "r", "d", "e", "r", "\"", ":">>

\* json.Marshal(&items[i].Schema): the standard JSON encoding of the schema.
SchemaMarshal(schema, go) ==
  [err |-> FALSE,
   bytes |->
     CASE schema.kind = "absent" -> <<"{", "}">>
       [] schema.kind = "int" -> <<"{">> \o XOrderKey \o Decimal(schema.n) \o <<"}">>
       [] schema.kind = "string" -> <<"{">> \o XOrderKey \o EncodeString(schema.s, go) \o <<"}">>
       [] schema.kind = "bool" -> <<"{">> \o XOrderKey \o <<"t", "r", "u", "e", "}">>]

\* Lines 28-38 for item i: separator, the name written raw between quotes, and
\* bs, the bytes json.Marshal gave for the schema.
ItemBytes(items, i, bs) ==
  (IF i > 1 THEN <<",">> ELSE <<>>)
    \o <<"\"">> \o items[i].Name \o <<"\"", ":">>
    \o bs

\* OrderSchemaItems.MarshalJSON, linked with release go of encoding/json.
ItemsMarshalJSON(items, go) ==
  LET m == [i \in 1..Len(items) |-> SchemaMarshal(items[i].Schema, go)]
  IN  IF \E i \in 1..Len(items) : m[i].err
        THEN [bytes |-> <<>>, err |-> TRUE]
        ELSE [bytes |-> <<"{">>
                          \o Concat([i \in 1..Len(items) |-> ItemBytes(items, i, m[i].bytes)])
                          \o <<"}">>,
              err |-> FALSE]

(***************************************************************************)
(* The JSON scanner, compaction and decoding of encoding/json.             *)
(***************************************************************************)

WhiteSpace == {" ", "\t", "\r", "\n"}

DecimalDigits == {"0", "1", "2", "3", "4", "5", "6", "7", "8", "9"}

\* The character at position j, or the empty string past the end of the text.
At(s, j) == IF j >= 1 /\ j <= Len(s) THEN s[j] ELSE ""

\* The first position from i on that holds no white space.
SkipSpace(s, i) ==
  CHOOSE j \in i..(Len(s) + 1) :
    /\ At(s, j) \notin WhiteSpace
    /\ \A k \in i..(j - 1) : s[k] \in WhiteSpace

\* The first position from i on that holds no decimal digit.
SkipDigits(s, i) ==
  CHOOSE j \in i..(Len(s) + 1) :
    /\ At(s, j) \notin DecimalDigits
    /\ \A k \in i..(j - 1) : s[k] \in DecimalDigits

SimpleEscapes == {"\"", "\\", "/", "b", "f", "n", "r", "t"}

Unescape(e) ==
  CASE e = "b" -> CharOf(8)
    [] e = "f" -> "\f"
    [] e = "n" -> "\n"
    [] e = "r" -> "\r"
    [] e = "t" -> "\t"
    [] OTHER -> e

\* Whether positions j..j+5 hold a \uXXXX escape.
IsHexEscape(s, j) ==
  /\ At(s, j) = "\\"
  /\ At(s, j + 1) = "u"
  /\ \A d \in 2..5 : At(s, j + d) \in HexDigits

\* The code unit the \uXXXX escape at position j stands for.
HexEscapeValue(s, j) ==
  HexValue(s[j + 2]) * 4096 + HexValue(s[j + 3]) * 256
    + HexValue(s[j + 4]) * 16 + HexValue(s[j + 5])

IsHighSurrogate(u) == u >= 55296 /\ u <= 56319
IsLowSurrogate(u) == u >= 56320 /\ u <= 57343

\* Whether the escape at j and the one after it form a surrogate pair.
IsSurrogatePair(s, j) ==
  /\ IsHighSurrogate(HexEscapeValue(s, j))
  /\ IsHexEscape(s, j + 6)
  /\ IsLowSurrogate(HexEscapeValue(s, j + 6))

\* The character the \uXXXX escape at position j stands for: a surrogate
\* pair gives one character, a lone surrogate the replacement character.
UnescapeHex(s, j) ==
  LET u == HexEscapeValue(s, j)
  IN  IF IsSurrogatePair(s, j)
        THEN CharOf(65536 + (u - 55296) * 1024 + (HexEscapeValue(s, j + 6) - 56320))
      ELSE IF IsHighSurrogate(u) \/ IsLowSurrogate(u) THEN CharOf(65533)
      ELSE CharOf(u)

ScanFail == [ok |-> FALSE, next |-> 0, str |-> <<>>, members |-> <<>>]
ScanOk(next) == [ok |-> TRUE, next |-> next, str |-> <<>>, members |-> <<>>]

\* The rest of a string literal from position j, after its opening quote.
RECURSIVE ScanStringBody(_, _, _)
ScanStringBody(s, j, acc) ==
  IF j > Len(s) THEN ScanFail
  ELSE IF s[j] = "\"" THEN [ScanOk(j + 1) EXCEPT !.str = acc]
  ELSE IF s[j] = "\\"
    THEN IF At(s, j + 1) \in SimpleEscapes
           THEN ScanStringBody(s, j + 2, Append(acc, Unescape(s[j + 1])))
         ELSE IF IsHexEscape(s, j)
           THEN ScanStringBody(s, IF IsSurrogatePair(s, j) THEN j + 12 ELSE j + 6,
                               Append(acc, UnescapeHex(s, j)))
         ELSE ScanFail
  ELSE IF s[j] \in ControlChars THEN ScanFail
  ELSE ScanStringBody(s, j + 1, Append(acc, s[j]))

\* A number starting at position i: sign, integer part, fraction, exponent.
ScanNumber(s, i) ==
  LET int == IF s[i] = "-" THEN i + 1 ELSE i
      frac == IF At(s, int) = "0" THEN int + 1 ELSE SkipDigits(s, int)
      exp == IF At(s, frac) = "." THEN SkipDigits(s, frac + 1) ELSE frac
      digits == IF At(s, exp + 1) \in {"+", "-"} THEN exp + 2 ELSE exp + 1
      end == IF At(s, exp) \in {"e", "E"} THEN SkipDigits(s, digits) ELSE exp
  IN  IF At(s, int) \notin DecimalDigits THEN ScanFail
      ELSE IF At(s, frac) = "." /\ exp = frac + 1 THEN ScanFail
      ELSE IF At(s, exp) \in {"e", "E"} /\ end = digits THEN ScanFail
      ELSE ScanOk(end)

ScanLiteral(s, i, lit) ==
  IF i + Len(lit) - 1 <= Len(s) /\ SubSeq(s, i, i + Len(lit) - 1) = lit
    THEN ScanOk(i + Len(lit))
    ELSE ScanFail

RECURSIVE ScanValue(_, _)
RECURSIVE ScanMembers(_, _, _)
RECURSIVE ScanElements(_, _)

\* One JSON value starting at position i, which holds no white space.
ScanValue(s, i) ==
  IF i > Len(s) THEN ScanFail
  ELSE IF s[i] = "{"
    THEN IF At(s, SkipSpace(s, i + 1)) = "}" THEN ScanOk(SkipSpace(s, i + 1) + 1)
         ELSE ScanMembers(s, SkipSpace(s, i + 1), <<>>)
  ELSE IF s[i] = "["
    THEN IF At(s, SkipSpace(s, i + 1)) = "]" THEN ScanOk(SkipSpace(s, i + 1) + 1)
         ELSE ScanElements(s, SkipSpace(s, i + 1))
  ELSE IF s[i] = "\"" THEN ScanStringBody(s, i + 1, <<>>)
  ELSE IF s[i] = "-" \/ s[i] \in DecimalDigits THEN ScanNumber(s, i)
  ELSE IF s[i] = "t" THEN ScanLiteral(s, i, <<"t", "r", "u", "e">>)
  ELSE IF s[i] = "f" THEN ScanLiteral(s, i, <<"f", "a", "l", "s", "e">>)
  ELSE IF s[i] = "n" THEN ScanLiteral(s, i, <<"n", "u", "l", "l">>)
  ELSE ScanFail

\* The members of an object from the key at position i, up to and including
\* the closing brace.
ScanMembers(s, i, acc) ==
  IF At(s, i) # "\"" THEN ScanFail
  ELSE LET key == ScanStringBody(s, i + 1, <<>>)
           colon == SkipSpace(s, key.next)
       IN  IF ~key.ok \/ At(s, colon) # ":" THEN ScanFail
           ELSE LET from == SkipSpace(s, colon + 1)
                    val == ScanValue(s, from)
                    mem == Append(acc, [key |-> key.str,
                                        raw |-> SubSeq(s, from, val.next - 1)])
                    after == SkipSpace(s, val.next)
                IN  IF ~val.ok THEN ScanFail
                    ELSE IF At(s, after) = "," THEN ScanMembers(s, SkipSpace(s, after + 1), mem)
                    ELSE IF At(s, after) = "}"
                      THEN [ScanOk(after + 1) EXCEPT !.members = mem]
                    ELSE ScanFail

\* The elements of an array from the value at position i, up to and including
\* the closing bracket.
ScanElements(s, i) ==
  LET val == ScanValue(s, i)
      after == SkipSpace(s, val.next)
  IN  IF ~val.ok THEN ScanFail
      ELSE IF At(s, after) = "," THEN ScanElements(s, SkipSpace(s, after + 1))
      ELSE IF At(s, after) = "]" THEN ScanOk(after + 1)
      ELSE ScanFail

\* Whether the text is exactly one JSON value, white space around it allowed.
ValidJSON(s) ==
  LET r == ScanValue(s, SkipSpace(s, 1))
  IN  r.ok /\ SkipSpace(s, r.next) = Len(s) + 1

\* The number of backslashes right before position j.
BackslashRun(s, j) ==
  CHOOSE k \in 0..(j - 1) :
    /\ \A d \in 1..k : s[j - d] = "\\"
    /\ At(s, j - k - 1) # "\\"

\* In a valid text, whether position i lies inside a string literal: an odd
\* number of quotes that no backslash escapes stands before it.
InsideString(s, i) ==
  Cardinality({j \in 1..(i - 1) : s[j] = "\"" /\ BackslashRun(s, j) % 2 = 0}) % 2 = 1

\* The characters compaction may touch.
Compacted == HTMLEscaped \cup WhiteSpace

\* The compaction json.Marshal applies to a Marshaler's valid output: white
\* space outside strings is dropped, and <, >, & and the line separators
\* U+2028 and U+2029 are escaped.
Compact(s) ==
  IF \A i \in 1..Len(s) : s[i] \notin Compacted THEN s
  ELSE Concat([i \in 1..Len(s) |->
                 IF s[i] \in HTMLEscaped THEN HTMLEscapeChar(s[i])
                 ELSE IF s[i] \in WhiteSpace /\ ~InsideString(s, i) THEN <<>>
                 ELSE <<s[i]>>])

\* json.Marshal(items), where items.MarshalJSON() gave out: the Marshaler's
\* output is checked and compacted; text that is not valid JSON is an error.
JSONMarshal(out) ==
  IF out.err \/ ~ValidJSON(out.bytes)
    THEN [bytes |-> <<>>, err |-> TRUE]
    ELSE [bytes |-> Compact(out.bytes), err |-> FALSE]

RECURSIVE MembersToMap(_, _)
MembersToMap(members, m) ==
  IF members = <<>> THEN m
  ELSE MembersToMap(Tail(members), MapPut(m, Head(members).key, Head(members).raw))

\* Decoding an object text into a map from member name to the member's value
\* text; of two members with one name the later wins.
DecodeObject(s) ==
  LET r == ScanValue(s, SkipSpace(s, 1))
  IN  IF At(s, SkipSpace(s, 1)) = "{" /\ r.ok /\ SkipSpace(s, r.next) = Len(s) + 1
        THEN [ok |-> TRUE, m |-> MembersToMap(r.members, [k \in {} |-> <<>>])]
        ELSE [ok |-> FALSE, m |-> [k \in {} |-> <<>>]]

NullBytes == <<"n", "u", "l", "l">>

MarshalJSON_nocheck(o, out) == JSONMarshal(out)

\* SchemaProperties.MarshalJSON; out is what MarshalJSON of the items that
\* properties.ToOrderedSchemaItems() returns gives when line 125 marshals them.
MarshalJSON(o, out) ==
  IF o.nil
    THEN [bytes |-> NullBytes, err |-> FALSE]
    ELSE JSONMarshal(out)

\* NewSchemaProperties()
InitNew ==
  /\ Origin = MakeOrigin(EmptyMap)
  /\ omap = OrderedMapNew

\* A SchemaProperties literal: Origin unset or given, omap always nil.
InitLiteral ==
  /\ omap = NilOMap
  /\ \/ Origin = NilOrigin
     \/ \E D \in SUBSET Names :
          /\ Cardinality(D) <= MaxEntries
          /\ \E m \in [D -> Schemas] : Origin = MakeOrigin(m)

Init ==
  /\ InitNew \/ InitLiteral
  /\ op = NoOp("new")
  /\ ret = NoRet
  /\ panicked = FALSE
  /\ inserted = <<>>

\* SchemaProperties.Set(k, v). Writing to a nil map panics before anything is
\* stored; a nil omap panics after Origin has been written.
Set(k, v) ==
  /\ ~panicked
  /\ k \in DOMAIN Origin.m \/ Cardinality(DOMAIN Origin.m) < MaxEntries
  /\ op' = [NoOp("Set") EXCEPT !.k = k, !.v = v,
                                 !.had = k \in DOMAIN Origin.m]
  /\ ret' = NoRet
  /\ inserted' = IF \E i \in 1..Len(inserted) : inserted[i] = k
                   THEN inserted
                   ELSE Append(inserted, k)
  /\ IF Origin.nil
       THEN /\ panicked' = TRUE
            /\ UNCHANGED <<Origin, omap>>
       ELSE /\ Origin' = SetOrigin(Origin, k, v)
            /\ IF omap.nil
                 THEN /\ panicked' = TRUE
                      /\ UNCHANGED omap
                 ELSE /\ omap' = SetOMap(omap, k, v)
                      /\ UNCHANGED panicked

\* SchemaProperties.Len()
LenCall ==
  /\ ~panicked
  /\ op' = NoOp("Len")
  /\ ret' = [NoRet EXCEPT !.n = LenOf(Origin)]
  /\ UNCHANGED <<Origin, omap, panicked, inserted>>

\* SchemaProperties.ToOrderedSchemaItems()
ToOrderedSchemaItemsCall ==
  /\ ~panicked
  /\ \E items \in {ToOrderedSchemaItems(Origin, omap, order) :
                       order \in IterationOrders(Origin, omap)} :
       ret' = [NoRet EXCEPT !.items = items]
  /\ op' = NoOp("ToOrderedSchemaItems")
  /\ UNCHANGED <<Origin, omap, panicked, inserted>>

\* SchemaProperties.MarshalJSON()
MarshalJSONCall ==
  /\ ~panicked
  /\ \E items \in {ToOrderedSchemaItems(Origin, omap, order) :
                       order \in IterationOrders(Origin, omap)} :
       \E out \in {ItemsMarshalJSON(items, go) : go \in GoReleases} :
         LET r == MarshalJSON(Origin, out)
         IN  ret' = [NoRet EXCEPT !.bytes = r.bytes, !.err = r.err]
  /\ op' = NoOp("MarshalJSON")
  /\ UNCHANGED <<Origin, omap, panicked, inserted>>

Next ==
  \/ \E k \in Names, v \in InsertSchemas : Set(k, v)
  \/ LenCall
  \/ ToOrderedSchemaItemsCall
  \/ MarshalJSONCall

Spec == Init /\ [][Next]_vars

(***************************************************************************)
(* The comparator on its own: an OrderSchemaItems literal of two items and *)
(* calls of its Less method.                                               *)
(***************************************************************************)

Items == {[Name |-> k, Schema |-> v] : k \in Names, v \in Schemas}

InitLess ==
  /\ Origin = NilOrigin
  /\ omap = NilOMap
  /\ op = NoOp("items")
  /\ \E a, b \in Items :
       /\ a.Name # b.Name
       /\ ret = [NoRet EXCEPT !.items = <<a, b>>]
  /\ panicked = FALSE
  /\ inserted = <<>>

\* items.Less(i, j)
LessCall(i, j) ==
  /\ op' = [NoOp("Less") EXCEPT !.i = i, !.j = j]
  /\ ret' = [ret EXCEPT !.less = Less(ret.items[i], ret.items[j])]
  /\ UNCHANGED <<Origin, omap, panicked, inserted>>

NextLess == \E i, j \in 1..2 : LessCall(i, j)

SpecLess == InitLess /\ [][NextLess]_vars

(***************************************************************************)
(* Properties                                                              *)
(***************************************************************************)

ItemNames(items) == [i \in 1..Len(items) |-> items[i].Name]

HasXOrder(item) == item.Schema.kind # "absent"

\* C1: with the insertion-ordered map present, ToOrderedSchemaItems returns the
\* names in the order of their first insertion, whatever the x-order values.
C1_InsertionOrder ==
  (op.name = "ToOrderedSchemaItems" /\ ~omap.nil) => ItemNames(ret.items) = inserted

\* A result on the insertion-order path that sorting would have reordered.
C1_Witness ==
  /\ op.name = "ToOrderedSchemaItems"
  /\ ~omap.nil
  /\ Len(ret.items) >= 2
  /\ Sort(ret.items) # ret.items

\* C2: Set(k, v2) on a container that already holds k keeps the position of
\* every name in the ordered sequence and the value of every other name, and
\* the value returned for k becomes v2.
C2_ReinsertKeepsPosition ==
  [][(op'.name = "Set" /\ op'.had /\ ~panicked') =>
       LET before == ToOrderedSchemaItems(Origin, omap, <<>>)
           after == ToOrderedSchemaItems(Origin', omap', <<>>)
       IN  /\ ItemNames(after) = ItemNames(before)
           /\ \A i \in 1..Len(after) :
                after[i].Schema =
                  IF after[i].Name = op'.k THEN op'.v ELSE before[i].Schema]_vars

\* A completed Set of a name the container already held, the first of several.
C2_Witness ==
  /\ op.name = "Set"
  /\ op.had
  /\ ~panicked
  /\ Len(omap.keys) >= 2
  /\ omap.keys[1] = op.k
  /\ Origin.m[op.k] = op.v

\* C3: on a container made by NewSchemaProperties the ordered map and Origin
\* hold the same names, each once, with the same values, and Len() is the
\* number of distinct names inserted.
C3_ParallelStructures ==
  ~omap.nil =>
    /\ {omap.keys[i] : i \in 1..Len(omap.keys)} = DOMAIN Origin.m
    /\ \A i, j \in 1..Len(omap.keys) : omap.keys[i] = omap.keys[j] => i = j
    /\ DOMAIN omap.values = DOMAIN Origin.m
    /\ \A k \in DOMAIN Origin.m : omap.values[k] = Origin.m[k]
    /\ LenOf(Origin) = Len(inserted)
    /\ op.name = "Len" => ret.n = Len(inserted)

\* Len() on a constructed container of several names, one with an x-order value.
C3_Witness ==
  /\ op.name = "Len"
  /\ ~omap.nil
  /\ ret.n >= 2
  /\ \E k \in DOMAIN Origin.m : Origin.m[k] # NoExt

\* C4: Set never fails and stores the entry, on every container value.
C4_SetAlwaysSucceeds ==
  op.name = "Set" =>
    /\ ~panicked
    /\ op.k \in DOMAIN Origin.m
    /\ Origin.m[op.k] = op.v

\* C5: MarshalJSON gives null without error when Origin is unset, and {} when
\* Origin is set and empty, with or without the insertion-ordered map.
C5_NullVersusEmpty ==
  op.name = "MarshalJSON" =>
    /\ Origin.nil => (ret.bytes = NullBytes /\ ~ret.err)
    /\ (~Origin.nil /\ DOMAIN Origin.m = {}) => (ret.bytes = <<"{", "}">> /\ ~ret.err)

\* MarshalJSON has run on a container whose Origin is unset.
C5_Witness ==
  /\ op.name = "MarshalJSON"
  /\ Origin.nil

\* C6: in the fallback path entries with an x-order value come before those
\* without, integer values ascend, and entries without a value ascend by name.
C6_FallbackOrder ==
  (op.name = "ToOrderedSchemaItems" /\ omap.nil) =>
    \A i, j \in 1..Len(ret.items) :
      i < j =>
        LET a == ret.items[i]
            b == ret.items[j]
        IN  /\ HasXOrder(b) => HasXOrder(a)
            /\ (a.Schema.kind = "int" /\ b.Schema.kind = "int") => a.Schema.n <= b.Schema.n
            /\ (~HasXOrder(a) /\ ~HasXOrder(b)) => StrLess(a.Name, b.Name)

\* C7: in the fallback path, when no schema has an x-order value, the result
\* holds every entry of Origin once, ascending by name, for every iteration
\* order of Origin.
C7_NameOrder ==
  (/\ op.name = "ToOrderedSchemaItems"
   /\ omap.nil
   /\ \A k \in DOMAIN Origin.m : Origin.m[k] = NoExt) =>
    /\ Len(ret.items) = Cardinality(DOMAIN Origin.m)
    /\ \A i \in 1..Len(ret.items) :
         /\ ret.items[i].Name \in DOMAIN Origin.m
         /\ ret.items[i].Schema = Origin.m[ret.items[i].Name]
    /\ \A i, j \in 1..Len(ret.items) :
         i < j => StrLess(ret.items[i].Name, ret.items[j].Name)

\* A fallback result over the largest Origin without any x-order value.
C7_Witness ==
  /\ op.name = "ToOrderedSchemaItems"
  /\ omap.nil
  /\ \A k \in DOMAIN Origin.m : Origin.m[k] = NoExt
  /\ Len(ret.items) >= 3

\* C8: MarshalJSON of an initialized container succeeds, and its output
\* decodes to an object with exactly the names of Origin, each with the
\* encoding of its schema.
C8_RoundTrip ==
  (op.name = "MarshalJSON" /\ ~Origin.nil) =>
    /\ ~ret.err
    /\ LET d == DecodeObject(ret.bytes)
       IN  /\ d.ok
           /\ DOMAIN d.m = DOMAIN Origin.m
           /\ \E go \in GoReleases :
                \A k \in DOMAIN Origin.m : d.m[k] = SchemaMarshal(Origin.m[k], go).bytes

\* C9: in the fallback path the result is the same for every order in which
\* Origin may be iterated.
C9_Deterministic ==
  (op.name = "ToOrderedSchemaItems" /\ omap.nil) =>
    \A order \in MapOrders(Origin.m) :
      ToOrderedSchemaItems(Origin, omap, order) = ret.items

\* The text an x-order value stands for in a comparison as strings.
XOrderText(v) == IF v.kind = "int" THEN Decimal(v.n) ELSE v.s

\* C10: for two entries that both have an x-order value, Less compares as
\* integers when both are integers, else as strings when the values are
\* integers or strings, else by name.
C10_ThreeTiers ==
  (op.name = "Less" /\ HasXOrder(ret.items[op.i]) /\ HasXOrder(ret.items[op.j])) =>
    LET a == ret.items[op.i]
        b == ret.items[op.j]
        x == a.Schema
        y == b.Schema
    IN  ret.less =
          IF x.kind = "int" /\ y.kind = "int" THEN x.n < y.n
          ELSE IF x.kind \in {"int", "string"} /\ y.kind \in {"int", "string"}
            THEN StrLess(XOrderText(x), XOrderText(y))
          ELSE StrLess(a.Name, b.Name)

====
